---- MODULE Spec2Model ----
(***************************************************************************)
(* ExecutableEntropy: the ELF metadata engine (two near-duplicate ElfInfo  *)
(* classes, exentropy/__init__.py and exentropy/searchexports.py), the     *)
(* batch scripts and the HTTP upload front-end (main.py).                  *)
(*                                                                         *)
(* The code is Python 2 (dict.has_key, str + "\x00").  The ELF container   *)
(* (pyelftools' ELFFile) is modelled as a record of typed sections and     *)
(* segments.  Python's None is modelled per type: NoSection (0) for an     *)
(* absent section, NoneIdx (-1) for an absent integer, PyNone for an       *)
(* absent string.  list(set) is modelled as the set (its order is          *)
(* arbitrary).                                                             *)
(***************************************************************************)
EXTENDS Integers, Sequences, FiniteSets, TLC

VARIABLES
    cls,          \* which ElfInfo class the object is an instance of
    verbose,      \* ElfInfo._verbose
    elffile,      \* ElfInfo.elffile, the parsed container
    versioninfo,  \* ElfInfo._versioninfo
    data,         \* ElfInfo.data, the report dict
    emitted,      \* lines printed by _emitline
    ret,          \* outcome of the last method call on the object
    nscans,       \* how many times _init_versioninfo scanned the sections
    http,         \* the upload front-end: request in flight, temp dirs, response
    batch,        \* the batch scripts: files, loop position, result set, output
    measure       \* one compute_entropy call: its buffer and what it returned

vars == <<cls, verbose, elffile, versioninfo, data, emitted, ret, nscans, http, batch,
          measure>>

engineVars == <<cls, verbose, elffile, versioninfo, data, emitted, ret, nscans>>

-----------------------------------------------------------------------------
(* Bounds of the model *)

\* symbols in all symbol tables of one container
MaxSyms == 2
\* symbol tables in one container
MaxTables == 2
\* entries of the VerSym array
MaxVerSyms == 2
\* tags in the Dynamic Section
MaxTags == 2
\* method calls on one ElfInfo object in one behaviour
MaxCalls == 2
\* requests served by the front-end in one behaviour
MaxRequests == 2
\* files walked by a batch script
MaxFiles == 3

-----------------------------------------------------------------------------
(* Python values *)

\* None where a str is expected (symbol and version names are character sequences)
PyNone == <<"None">>
\* None where a scheme tag is expected
NoneStr == "None"
NoneIdx == -1
NoSection == 0
NoExc == "none"

Range(s) == { s[i] : i \in 1..Len(s) }

Put(d, k, v) == [x \in (DOMAIN d) \cup {k} |-> IF x = k THEN v ELSE d[x]]

EmptyDict == [x \in {} |-> 0]

\* str.startswith
StartsWith(s, p) == Len(s) >= Len(p) /\ SubSeq(s, 1, Len(p)) = p

\* '%3s' % x for a non-negative integer x: decimal digits, left-padded to width 3
DigitChar == <<"0", "1", "2", "3", "4", "5", "6", "7", "8", "9">>

RECURSIVE ToDigits(_)
ToDigits(n) == IF n < 10 THEN <<DigitChar[n + 1]>>
               ELSE ToDigits(n \div 10) \o <<DigitChar[(n % 10) + 1]>>

RECURSIVE PadLeft(_, _)
PadLeft(s, w) == IF Len(s) >= w THEN s ELSE PadLeft(<<" ">> \o s, w)

Fmt3s(n) == PadLeft(ToDigits(n), 3)

\* int(x) on a str: surrounding whitespace is stripped, then every character
\* must be a decimal digit; anything else raises ValueError
RECURSIVE LStrip(_)
LStrip(s) == IF s # <<>> /\ Head(s) = " " THEN LStrip(Tail(s)) ELSE s

RECURSIVE RStrip(_)
RStrip(s) == IF s # <<>> /\ s[Len(s)] = " " THEN RStrip(SubSeq(s, 1, Len(s) - 1)) ELSE s

IntRaisesValueError(s) ==
    LET t == RStrip(LStrip(s))
    IN  t = <<>> \/ \E i \in 1..Len(t) : t[i] \notin Range(DigitChar)

-----------------------------------------------------------------------------
(* The container: what ELFFile exposes *)

SHN_UNDEF == 0
SHN_ABS == 65521
SHN_COMMON == 65522

\* describe_symbol_type: 'STT_FUNC' -> 'FUNC', 'STT_OBJECT' -> 'OBJECT', ...
describe_symbol_type(t) ==
    IF t = "STT_FUNC" THEN "FUNC"
    ELSE IF t = "STT_OBJECT" THEN "OBJECT"
    ELSE IF t = "STT_NOTYPE" THEN "NOTYPE"
    ELSE "<unknown>"

\* describe_symbol_shndx: 'UND', 'ABS', 'COM', or the index formatted '%3s'
describe_symbol_shndx(x) ==
    IF x = SHN_UNDEF THEN <<"U", "N", "D">>
    ELSE IF x = SHN_ABS THEN <<"A", "B", "S">>
    ELSE IF x = SHN_COMMON THEN <<"C", "O", "M">>
    ELSE Fmt3s(x)

Section(kind, name, sh_type, sh_entsize, symbols, tags, ndx, versions, needs, bytes) ==
    [kind |-> kind, name |-> name, sh_type |-> sh_type, sh_entsize |-> sh_entsize,
     symbols |-> symbols, tags |-> tags, ndx |-> ndx, versions |-> versions,
     needs |-> needs, bytes |-> bytes, sh_size |-> Len(bytes), sh_flags |-> 2]

SymbolTable(name, sh_type, sh_entsize, symbols) ==
    Section("SymbolTableSection", name, sh_type, sh_entsize, symbols,
            <<>>, <<>>, <<>>, <<>>, <<>>)

Dynamic(tags) ==
    Section("DynamicSection", ".dynamic", "SHT_DYNAMIC", 16, <<>>, tags,
            <<>>, <<>>, <<>>, <<>>)

VerSym(ndx) ==
    Section("GNUVerSymSection", ".gnu.version", "SHT_GNU_versym", 2, <<>>, <<>>,
            ndx, <<>>, <<>>, <<>>)

VerDef(versions) ==
    Section("GNUVerDefSection", ".gnu.version_d", "SHT_GNU_verdef", 0, <<>>, <<>>,
            <<>>, versions, <<>>, <<>>)

VerNeed(needs) ==
    Section("GNUVerNeedSection", ".gnu.version_r", "SHT_GNU_verneed", 0, <<>>, <<>>,
            <<>>, <<>>, needs, <<>>)

Plain(name, bytes) ==
    Section("Section", name, "SHT_PROGBITS", 0, <<>>, <<>>, <<>>, <<>>, <<>>, bytes)

Segment(p_type, bytes) ==
    [p_type |-> p_type, p_memsz |-> Len(bytes), p_flags |-> 5, bytes |-> bytes]

ELFFile(elfclass, sections, segments) ==
    [elfclass |-> elfclass, sections |-> sections, segments |-> segments]

Symbol(name, st_type, st_shndx) == [name |-> name, st_type |-> st_type, st_shndx |-> st_shndx]

Tag(d_tag, needed) == [d_tag |-> d_tag, needed |-> needed]

-----------------------------------------------------------------------------
(* The ElfInfo object.  self is the record of its attributes; a method is   *)
(* an operator from self (and arguments) to the outcome                     *)
(* [self |-> the object afterwards, exc |-> the exception raised or NoExc]. *)

PKG == "exentropy/__init__.py"
SE == "exentropy/searchexports.py"

\* the methods each class defines
Methods(c) ==
    IF c = PKG
    THEN {"__init__", "__str__", "_emitline", "_format_hex", "_init_versioninfo",
          "display_symbol_tables", "_symbol_version", "display_dynamic_tags",
          "compute_entropy", "print_infos"}
    ELSE {"__init__", "__str__", "_format_hex", "_init_versioninfo",
          "display_symbol_tables", "_symbol_version", "collect_sharedlib",
          "collect_sections_segments", "compute_entropy", "get_infos"}

NoVersionInfo ==
    [init |-> FALSE, versym |-> NoSection, verdef |-> NoSection,
     verneed |-> NoSection, type |-> NoneStr]

\* ElfInfo.__init__ on a file the provider could parse
NewElfInfo(c, file, verb) ==
    [cls |-> c, verbose |-> verb, elffile |-> file, versioninfo |-> NoVersionInfo,
     data |-> IF c = SE THEN Put(EmptyDict, "arch", file.elfclass) ELSE EmptyDict,
     emitted |-> <<>>, nscans |-> 0]

Line(msg, arg) == [msg |-> msg, arg |-> arg]

\* ElfInfo._emitline: prints only when verbose
emitline(self, line) ==
    IF self.verbose THEN [self EXCEPT !.emitted = Append(@, line)] ELSE self

\* the loop of _init_versioninfo over elffile.iter_sections()
RECURSIVE ScanVersionSections(_, _, _)
ScanVersionSections(sections, i, vi) ==
    IF i > Len(sections) THEN vi
    ELSE LET section == sections[i]
             hasVersymTag == \E t \in 1..Len(section.tags) : section.tags[t].d_tag = "DT_VERSYM"
             next ==
                 IF section.kind = "GNUVerSymSection" THEN [vi EXCEPT !.versym = i]
                 ELSE IF section.kind = "GNUVerDefSection" THEN [vi EXCEPT !.verdef = i]
                 ELSE IF section.kind = "GNUVerNeedSection" THEN [vi EXCEPT !.verneed = i]
                 ELSE IF section.kind = "DynamicSection" /\ hasVersymTag
                      THEN [vi EXCEPT !.type = "GNU"]
                 ELSE vi
         IN  ScanVersionSections(sections, i + 1, next)

\* the end of _init_versioninfo: Solaris when no DT_VERSYM tag set the type
\* and a VerNeed or VerDef section exists
SchemeOf(scanned) ==
    IF scanned.type = NoneStr
       /\ (scanned.verneed # NoSection \/ scanned.verdef # NoSection)
    THEN [scanned EXCEPT !.type = "Solaris"]
    ELSE scanned

\* a scan that ignores the cached bundle
init_versioninfo_uncached(self) ==
    [self EXCEPT !.versioninfo =
                     SchemeOf(ScanVersionSections(self.elffile.sections, 1,
                                                  [NoVersionInfo EXCEPT !.init = TRUE])),
                 !.nscans = @ + 1]

\* ElfInfo._init_versioninfo
init_versioninfo(self) ==
    IF self.versioninfo.init THEN self
    ELSE [self EXCEPT !.versioninfo =
                          SchemeOf(ScanVersionSections(self.elffile.sections, 1,
                                                       [NoVersionInfo EXCEPT !.init = TRUE])),
                      !.nscans = @ + 1]

\* the hidden flag of a GNU version index
HIDDEN_BIT == 32768

BitAnd0x8000(index) == IF (index \div HIDDEN_BIT) % 2 = 1 THEN HIDDEN_BIT ELSE 0

BlankVersion ==
    [index |-> NoneIdx, name |-> PyNone, filename |-> PyNone, hidden |-> FALSE]

\* GNUVerNeedSection.get_version: the first (verneed, vernaux) whose vna_other
\* is index, as a position in needs, or 0 for None
NeedPosition(needs, index) ==
    LET hits == { i \in 1..Len(needs) : needs[i].other = index }
    IN  IF hits = {} THEN 0 ELSE CHOOSE i \in hits : \A j \in hits : i <= j

\* the value the method hands back: both classes end without returning the dict
\* (a bare return in the package class, no return statement in searchexports)
SymbolVersionReturn(version) == [none |-> TRUE, value |-> BlankVersion]

\* ElfInfo._symbol_version.  hidden: None is modelled as FALSE.
\* Outcome: [self, exc, none, value, local], where none says the call handed
\* back None, value is the dict handed back otherwise, and local is the
\* symbol_version dict as the body left it.
SymbolVersionBody(self, nsym) ==
    LET vi == self.versioninfo
        sections == self.elffile.sections
        Out(exc, r, local) ==
            [self |-> self, exc |-> exc, none |-> r.none, value |-> r.value, local |-> local]
        ReturnNone(local) == Out(NoExc, [none |-> TRUE, value |-> BlankVersion], local)
        Raise(exc, local) == Out(exc, [none |-> TRUE, value |-> BlankVersion], local)
        Finish(local) == Out(NoExc, SymbolVersionReturn(local), local)
    IN  IF vi.versym = NoSection \/ nsym >= Len(sections[vi.versym].ndx)
        THEN ReturnNone(BlankVersion)
        ELSE
        LET raw == sections[vi.versym].ndx[nsym + 1]
        IN  IF raw \in {0, 1}    \* 'VER_NDX_LOCAL', 'VER_NDX_GLOBAL'
            THEN Finish([BlankVersion EXCEPT !.index = raw])
            ELSE
            LET hide == vi.type = "GNU" /\ BitAnd0x8000(raw) # 0
                index == IF hide THEN raw - HIDDEN_BIT ELSE raw
                v1 == [BlankVersion EXCEPT !.hidden = hide]
            IN  IF vi.verdef # NoSection /\ index <= Len(sections[vi.verdef].versions)
                THEN \* verdef.get_version(index) is None for index < 1, else a pair
                     IF self.cls = SE
                     THEN Raise("TypeError", v1)   \* next() of a tuple, or of None
                     ELSE IF index < 1
                     THEN Raise("TypeError", v1)   \* unpacking None
                     ELSE Finish([v1 EXCEPT !.name = sections[vi.verdef].versions[index],
                                            !.index = index])
                ELSE IF vi.verneed = NoSection
                     THEN Raise("AttributeError", v1)   \* None.get_version
                     ELSE LET needs == sections[vi.verneed].needs
                              p == NeedPosition(needs, index)
                          IN  IF p = 0
                              THEN Raise("TypeError", v1)   \* unpacking None
                              ELSE Finish([v1 EXCEPT !.name = needs[p].name,
                                                     !.filename = needs[p].file,
                                                     !.index = index])

symbol_version(self0, nsym) == SymbolVersionBody(init_versioninfo(self0), nsym)

JNI_PREFIX == <<"J", "a", "v", "a", "_">>

SymbolTables(self) ==
    SelectSeq(self.elffile.sections, LAMBDA s : s.kind = "SymbolTableSection")

\* the version annotation of a printed symbol line (package class)
VersionText(version, symbol) ==
    IF ~version.none /\ version.value.name # symbol.name
       /\ version.value.index \notin {0, 1}
    THEN IF version.value.filename # PyNone THEN "@name (index)"
         ELSE IF version.value.hidden THEN "@name"
         ELSE "@@name"
    ELSE ""

\* Which sets a FUNC symbol of the package class goes to: imports when its
\* shndx description is 'UND'; jexports when int() of the description succeeds
\* and the name starts with Java_
PkgIsImport(symbol) ==
    /\ describe_symbol_type(symbol.st_type) = "FUNC"
    /\ describe_symbol_shndx(symbol.st_shndx) = <<"U", "N", "D">>

PkgIsJExport(symbol) ==
    /\ describe_symbol_type(symbol.st_type) = "FUNC"
    /\ ~IntRaisesValueError(describe_symbol_shndx(symbol.st_shndx))
    /\ StartsWith(symbol.name, JNI_PREFIX)

\* the loop over the symbols of one table (package class); acc carries the
\* object, the two local sets and the exception that ended the scan, if any
\* one symbol of the loop (package class): version is the outcome of
\* _symbol_version when the table is the dynamic one under GNU versioning
\* (asks), and unused otherwise
PkgSymbolStep(symbol, asks, version, acc) ==
    IF asks /\ version.exc # NoExc
    THEN [acc EXCEPT !.self = version.self, !.exc = version.exc]
    ELSE [self |-> emitline(IF asks THEN version.self ELSE acc.self,
                            Line("symbol", IF asks THEN VersionText(version, symbol) ELSE "")),
          exc |-> NoExc,
          imports |-> IF PkgIsImport(symbol)
                      THEN acc.imports \cup {symbol.name} ELSE acc.imports,
          jexports |-> IF PkgIsJExport(symbol)
                       THEN acc.jexports \cup {symbol.name} ELSE acc.jexports]

\* whether display_symbol_tables asks _symbol_version about a table's symbols
AsksVersion(section, self) ==
    section.sh_type = "SHT_DYNSYM" /\ self.versioninfo.type = "GNU"

RECURSIVE PkgScanSymbols(_, _, _)
PkgScanSymbols(section, i, acc) ==
    IF acc.exc # NoExc \/ i > Len(section.symbols) THEN acc
    ELSE PkgScanSymbols(section, i + 1,
            PkgSymbolStep(section.symbols[i], AsksVersion(section, acc.self),
                          IF AsksVersion(section, acc.self)
                          THEN symbol_version(acc.self, i - 1)
                          ELSE [self |-> acc.self, exc |-> NoExc, none |-> TRUE,
                                value |-> BlankVersion, local |-> BlankVersion],
                          acc))

\* a scan that skips no table
SkipsTableNever(section) == FALSE

\* whether the scan skips a table
SkipsTable(section) == section.sh_entsize = 0

\* the diagnostic of a skipped table (package class)
PkgSkipDiagnostic(self, section) == emitline(self, Line("sh_entsize of zero", section.name))

RECURSIVE PkgScanTables(_, _, _)
PkgScanTables(tables, t, acc) ==
    IF acc.exc # NoExc \/ t > Len(tables) THEN acc
    ELSE LET section == tables[t]
         IN  IF SkipsTable(section)
             THEN PkgScanTables(tables, t + 1,
                                [acc EXCEPT !.self = PkgSkipDiagnostic(acc.self, section)])
             ELSE PkgScanTables(tables, t + 1,
                    PkgScanSymbols(section, 1,
                        [acc EXCEPT !.self =
                            emitline(emitline(@, Line("contains entries", section.name)),
                                     Line("column header", section.name))]))

\* ElfInfo.display_symbol_tables of exentropy/__init__.py
\* the end of display_symbol_tables (package class): the two assignments to
\* self.data, not reached when the scan raised
PkgStore(acc) ==
    IF acc.exc # NoExc THEN [self |-> acc.self, exc |-> acc.exc]
    ELSE [self |-> [acc.self EXCEPT !.data = Put(Put(@, "imports", acc.imports),
                                                 "jexports", acc.jexports)],
          exc |-> NoExc]

\* the lines printed when the file has no symbol table and no section at all
PkgNoSymbols(self) ==
    IF SymbolTables(self) = <<>> /\ Len(self.elffile.sections) = 0
    THEN emitline(emitline(self, Line("", "")),
                  Line("Dynamic symbol information is not available", ""))
    ELSE self

PkgScan(self) ==
    PkgScanTables(SymbolTables(self), 1,
                  [self |-> PkgNoSymbols(self), exc |-> NoExc, imports |-> {}, jexports |-> {}])

PkgDisplaySymbolTables(self0) == PkgStore(PkgScan(init_versioninfo(self0)))

\* Which sets a FUNC symbol of the searchexports class goes to: exports.add
\* sits in a try block of its own, not under the 'UND' test
SeIsImport(symbol) ==
    /\ describe_symbol_type(symbol.st_type) = "FUNC"
    /\ describe_symbol_shndx(symbol.st_shndx) = <<"U", "N", "D">>

SeIsExport(symbol) == describe_symbol_type(symbol.st_type) = "FUNC"

RECURSIVE SeScanTables(_, _, _)
SeScanTables(tables, t, acc) ==
    IF t > Len(tables) THEN acc
    ELSE LET section == tables[t]
             syms == Range(section.symbols)
         IN  IF SkipsTable(section)
             THEN SeScanTables(tables, t + 1, acc)
             ELSE SeScanTables(tables, t + 1,
                    [imports |-> acc.imports \cup { y.name : y \in { x \in syms : SeIsImport(x) } },
                     exports |-> acc.exports \cup { y.name : y \in { x \in syms : SeIsExport(x) } }])

\* ElfInfo.display_symbol_tables of exentropy/searchexports.py
\* the end of display_symbol_tables (searchexports): the two assignments
SeStore(self, acc) ==
    [self |-> [self EXCEPT !.data = Put(Put(@, "imports", acc.imports),
                                        "exports", acc.exports)],
     exc |-> NoExc]

SeScan(self) ==
    SeStore(self, SeScanTables(SymbolTables(self), 1, [imports |-> {}, exports |-> {}]))

SeDisplaySymbolTables(self0) == SeScan(init_versioninfo(self0))

display_symbol_tables(self) ==
    IF self.cls = PKG THEN PkgDisplaySymbolTables(self) ELSE SeDisplaySymbolTables(self)

\* the NEEDED names of one Dynamic Section
NeededOf(section) ==
    { section.tags[t].needed : t \in { u \in 1..Len(section.tags) :
                                       section.tags[u].d_tag = "DT_NEEDED" } }

\* the loop of collect_sharedlib / display_dynamic_tags over the sections:
\* data["shlib"] is assigned inside the loop, once per Dynamic Section
RECURSIVE ScanDynamic(_, _, _)
ScanDynamic(sections, i, self) ==
    IF i > Len(sections) THEN self
    ELSE LET section == sections[i]
         IN  IF section.kind # "DynamicSection"
             THEN ScanDynamic(sections, i + 1, self)
             ELSE ScanDynamic(sections, i + 1,
                              [self EXCEPT !.data = Put(@, "shlib", NeededOf(section))])

\* ElfInfo.collect_sharedlib (searchexports)
collect_sharedlib(self) ==
    [self |-> ScanDynamic(self.elffile.sections, 1, self), exc |-> NoExc]

\* the 'Shared library: [...]' lines of display_dynamic_tags, one per NEEDED tag
RECURSIVE EmitNeeded(_, _, _)
EmitNeeded(tags, t, self) ==
    IF t > Len(tags) THEN self
    ELSE EmitNeeded(tags, t + 1,
                    IF tags[t].d_tag = "DT_NEEDED"
                    THEN emitline(self, Line("Shared library", tags[t].needed))
                    ELSE self)

RECURSIVE EmitDynamic(_, _, _)
EmitDynamic(sections, i, self) ==
    IF i > Len(sections) THEN self
    ELSE EmitDynamic(sections, i + 1,
                     IF sections[i].kind = "DynamicSection"
                     THEN EmitNeeded(sections[i].tags, 1, self) ELSE self)

\* ElfInfo.display_dynamic_tags (package class)
display_dynamic_tags(self) ==
    [self |-> ScanDynamic(self.elffile.sections, 1,
                          EmitDynamic(self.elffile.sections, 1, self)),
     exc |-> NoExc]

\* math.log(k, 2) in thousandths of a bit, for k = 1..9
Log2Milli == <<0, 1000, 1585, 2000, 2322, 2585, 2807, 3000, 3170>>

\* map_of_bytes: how often each byte value occurs
Histogram(text) ==
    [b \in Range(text) |-> Cardinality({ i \in 1..Len(text) : text[i] = b })]

\* a term that weighs the logarithm by the count instead of the probability
EntropyTermByCount(c, n) == c * (Log2Milli[n] - Log2Milli[c])

\* -p * log2(p) for p = c / n, in thousandths of a bit
EntropyTerm(c, n) == (c * (Log2Milli[n] - Log2Milli[c])) \div n

RECURSIVE SumEntropy(_, _, _)
SumEntropy(keys, hist, n) ==
    IF keys = {} THEN 0
    ELSE LET k == CHOOSE x \in keys : TRUE
         IN  EntropyTerm(hist[k], n) + SumEntropy(keys \ {k}, hist, n)

\* ElfInfo.compute_entropy, in thousandths of a bit: the division by len(text)
\* sits inside the loop over the histogram, which is empty for an empty buffer
compute_entropy(text) ==
    LET hist == Histogram(text)
    IN  SumEntropy(DOMAIN hist, hist, Len(text))

RECURSIVE SectionRows(_, _)
SectionRows(sections, i) ==
    IF i > Len(sections) THEN <<>>
    ELSE LET section == sections[i]
             row == [name |-> section.name, size |-> section.sh_size,
                     flags |-> section.sh_flags, entro |-> compute_entropy(section.bytes)]
         IN  (IF section.name # "" THEN <<row>> ELSE <<>>) \o SectionRows(sections, i + 1)

RECURSIVE SegmentRows(_, _)
SegmentRows(segments, i) ==
    IF i > Len(segments) THEN <<>>
    ELSE LET segment == segments[i]
             row == [name |-> segment.p_type, size |-> segment.p_memsz,
                     flags |-> segment.p_flags, entro |-> compute_entropy(segment.bytes)]
         IN  <<row>> \o SegmentRows(segments, i + 1)

RECURSIVE EmitRows(_, _, _)
EmitRows(rows, i, self) ==
    IF i > Len(rows) THEN self
    ELSE EmitRows(rows, i + 1, emitline(self, Line("row", rows[i].name)))

\* ElfInfo.collect_sections_segments (searchexports)
collect_sections_segments(self) ==
    [self |-> [self EXCEPT !.data =
                   Put(Put(@, "sections", SectionRows(self.elffile.sections, 1)),
                       "segments", SegmentRows(self.elffile.segments, 1))],
     exc |-> NoExc]

\* ElfInfo.print_infos (package class)
\* one of the two loops of print_infos: a line per row, then data[key] = rows
PrintRows(self, key, rows) ==
    [EmitRows(rows, 1, self) EXCEPT !.data = Put(@, key, rows)]

PrintSegments(self) == PrintRows(self, "segments", SegmentRows(self.elffile.segments, 1))

PrintSections(self) == PrintRows(self, "sections", SectionRows(self.elffile.sections, 1))

print_infos(self0) ==
    [self |-> PrintSegments(PrintSections(display_dynamic_tags(self0).self)), exc |-> NoExc]

\* ElfInfo.get_infos (searchexports)
get_infos(self0) ==
    display_symbol_tables(collect_sharedlib(collect_sections_segments(self0).self).self)

\* obj.method(): AttributeError when the class of obj does not define it
Call(self, method) ==
    IF method \notin Methods(self.cls) THEN [self |-> self, exc |-> "AttributeError"]
    ELSE IF method = "get_infos" THEN get_infos(self)
    ELSE IF method = "print_infos" THEN print_infos(self)
    ELSE IF method = "display_symbol_tables" THEN display_symbol_tables(self)
    ELSE IF method = "collect_sharedlib" THEN collect_sharedlib(self)
    ELSE IF method = "display_dynamic_tags" THEN display_dynamic_tags(self)
    ELSE IF method = "collect_sections_segments" THEN collect_sections_segments(self)
    ELSE [self |-> self, exc |-> NoExc]

-----------------------------------------------------------------------------
(* Inputs: the containers the behaviours start from *)

SeqsUpTo(S, n) == UNION { [1..k -> S] : k \in 0..n }

PRINTF == <<"p", "r", "i", "n", "t", "f">>
JAVA_F == <<"J", "a", "v", "a", "_", "f">>
JAVAM == <<"J", "a", "v", "a", "m">>

SymbolPool ==
    { Symbol(PRINTF, "STT_FUNC", SHN_UNDEF),    \* an undefined function
      Symbol(JAVA_F, "STT_FUNC", 7),            \* a defined JNI entry point
      Symbol(JAVA_F, "STT_FUNC", SHN_UNDEF),    \* the same name, undefined
      Symbol(JAVA_F, "STT_FUNC", SHN_ABS),      \* the same name, absolute
      Symbol(JAVAM, "STT_FUNC", 12),            \* a defined function, not JNI
      Symbol(JAVA_F, "STT_OBJECT", 12) }        \* a defined object

TableHeaders ==
    { [name |-> ".symtab", sh_type |-> "SHT_SYMTAB", sh_entsize |-> 16],
      [name |-> ".dynsym", sh_type |-> "SHT_DYNSYM", sh_entsize |-> 16],
      [name |-> ".dynsym", sh_type |-> "SHT_DYNSYM", sh_entsize |-> 0] }

RECURSIVE SumTo(_, _)
SumTo(lens, t) == IF t = 0 THEN 0 ELSE lens[t] + SumTo(lens, t - 1)

\* the symbol tables with headers hs that hold, in order, lens[t] symbols of syms
TablesOf(hs, lens, syms) ==
    [t \in 1..Len(hs) |->
        SymbolTable(hs[t].name, hs[t].sh_type, hs[t].sh_entsize,
                    SubSeq(syms, SumTo(lens, t - 1) + 1, SumTo(lens, t)))]

V2 == <<"V", "2">>
LIBC == <<"l", "i", "b", "c">>

\* the version sections that come before the symbol tables: none, or GNU
\* versioning whose first index is VER_NDX_GLOBAL and whose second index names
\* a version that no VerDef or VerNeed section holds
VersionContexts ==
    { <<>>,
      <<Dynamic(<<Tag("DT_VERSYM", PyNone)>>), VerSym(<<1, 2, 1, 1>>)>> }

NullSection == Plain("", <<>>)

\* a container of the classification runs: up to MaxTables symbol tables that
\* hold up to MaxSyms symbols in all, after the version sections vc
ClassifyFile(vc, hs, lens, syms) ==
    ELFFile(32, <<NullSection>> \o vc \o TablesOf(hs, lens, syms), <<>>)

LIBM == <<"l", "i", "b", "m">>

TagPool ==
    { Tag("DT_NEEDED", LIBC), Tag("DT_NEEDED", LIBM), Tag("DT_SONAME", LIBC) }

\* no Dynamic Section, or one with up to MaxTags tags
DynamicOptions == { <<>> } \cup { <<Dynamic(tags)>> : tags \in SeqsUpTo(TagPool, MaxTags) }

BytesPool == { <<>>, <<0, 0>>, <<0, 255>> }

ReportFiles ==
    { ELFFile(c, <<NullSection>> \o dyn \o <<Plain(".text", b)>>
                 \o <<SymbolTable(".dynsym", "SHT_DYNSYM", 16,
                                  <<Symbol(PRINTF, "STT_FUNC", SHN_UNDEF),
                                    Symbol(JAVA_F, "STT_FUNC", 7)>>)>>,
              IF b = <<>> THEN <<>> ELSE <<Segment("PT_LOAD", b)>>) :
        c \in {32, 64}, dyn \in DynamicOptions, b \in BytesPool }

V1 == <<"V", "1">>
V3 == <<"V", "3">>

\* raw VerSym entries: VER_NDX_GLOBAL, two plain indexes, and the indexes 1 and
\* 2 with the hidden bit
RawIndexPool == { 1, 2, 3, HIDDEN_BIT + 1, HIDDEN_BIT + 2 }

VerSymOptions == { <<>> } \cup { <<VerSym(ndx)>> : ndx \in SeqsUpTo(RawIndexPool, MaxVerSyms) }

VerDefOptions == { <<>>, <<VerDef(<<V1>>)>>, <<VerDef(<<V1, V2>>)>> }

VerNeedOptions == { <<>>, <<VerNeed(<<[file |-> LIBC, other |-> 3, name |-> V3]>>)>> }

VersionDynamics ==
    { <<Dynamic(<<Tag("DT_VERSYM", PyNone)>>)>>, <<Dynamic(<<Tag("DT_NEEDED", LIBC)>>)>> }

VersionFiles ==
    { ELFFile(64, <<NullSection>> \o dyn \o vs \o vd \o vn
                  \o <<SymbolTable(".dynsym", "SHT_DYNSYM", 24,
                                   <<Symbol(PRINTF, "STT_FUNC", SHN_UNDEF),
                                     Symbol(JAVA_F, "STT_FUNC", 7)>>)>>,
              <<>>) :
        dyn \in VersionDynamics, vs \in VerSymOptions, vd \in VerDefOptions,
        vn \in VerNeedOptions }

\* (class, verbose) of the objects the code constructs or could construct:
\* the searchexports class ignores verbose
Objects == { <<SE, FALSE>>, <<PKG, FALSE>>, <<PKG, TRUE>> }

-----------------------------------------------------------------------------
(* The object as state *)

Self ==
    [cls |-> cls, verbose |-> verbose, elffile |-> elffile, versioninfo |-> versioninfo,
     data |-> data, emitted |-> emitted, nscans |-> nscans]

Fresh(o) ==
    /\ cls = o.cls /\ verbose = o.verbose /\ elffile = o.elffile
    /\ versioninfo = o.versioninfo /\ data = o.data /\ emitted = o.emitted
    /\ nscans = o.nscans
    /\ ret = [op |-> "__init__", arg |-> 0, exc |-> NoExc, none |-> TRUE,
              value |-> BlankVersion, local |-> BlankVersion, before |-> 0, ncalls |-> 0]

\* an uploaded or walked file: bytes the provider parses into a container, or
\* bytes it rejects (ELFFile raises ELFError)
WellFormed(file) == [elf |-> TRUE, file |-> file]
Garbage == [elf |-> FALSE, file |-> ELFFile(0, <<>>, <<>>)]

ImportingFile ==
    ELFFile(64, <<NullSection, Dynamic(<<Tag("DT_NEEDED", LIBC)>>),
                  SymbolTable(".dynsym", "SHT_DYNSYM", 24,
                              <<Symbol(PRINTF, "STT_FUNC", SHN_UNDEF),
                                Symbol(JAVA_F, "STT_FUNC", 7)>>)>>,
            <<Segment("PT_LOAD", <<0, 255>>)>>)

ExportingFile ==
    ELFFile(32, <<NullSection,
                  SymbolTable(".symtab", "SHT_SYMTAB", 16,
                              <<Symbol(JAVAM, "STT_FUNC", 12)>>)>>,
            <<>>)

Contents == { Garbage, WellFormed(ImportingFile), WellFormed(ExportingFile) }

NoRequest == [hasFile |-> FALSE, filename |-> <<>>, content |-> Garbage]

HttpIdle ==
    [pc |-> "off", req |-> NoRequest, tmp_dir |-> 0, dirs |-> {}, made |-> 0,
     pending |-> NoExc, raised |-> NoExc, analysed |-> FALSE, status |-> 0,
     body |-> EmptyDict, served |-> 0]

\* no compute_entropy call under way
NoMeasure == [text |-> <<>>, called |-> FALSE, exc |-> NoExc, entropy |-> 0]

BatchIdle ==
    [pc |-> "off", script |-> "", files |-> <<>>, i |-> 1, result_set |-> {},
     problems |-> {}, output |-> {}]

\* the object after a method call, and the call's outcome in ret
Returned(out, op, arg, r) ==
    /\ cls' = out.self.cls /\ verbose' = out.self.verbose /\ elffile' = out.self.elffile
    /\ versioninfo' = out.self.versioninfo /\ data' = out.self.data
    /\ emitted' = out.self.emitted /\ nscans' = out.self.nscans
    /\ ret' = [op |-> op, arg |-> arg, exc |-> out.exc, none |-> r.none, value |-> r.value,
               local |-> r.local, before |-> Len(emitted), ncalls |-> ret.ncalls + 1]
    /\ UNCHANGED <<http, batch, measure>>

NoResult == [none |-> TRUE, value |-> BlankVersion, local |-> BlankVersion]

\* elf.display_symbol_tables()
DisplaySymbolTables ==
    /\ ret.ncalls < MaxCalls
    /\ Returned(display_symbol_tables(Self), "display_symbol_tables", 0, NoResult)

-----------------------------------------------------------------------------
(* Specification Spec: one classification run on a freshly constructed object *)

\* the searchexports class never asks for a symbol's version, so that the
\* version sections are varied for the package class only
Init ==
    /\ \E o \in Objects, vc \in VersionContexts :
          /\ o[1] = SE => vc = <<>>
          /\ \E k \in 0..MaxTables :
                \E hs \in [1..k -> TableHeaders], lens \in [1..k -> 0..MaxSyms] :
                   /\ SumTo(lens, k) <= MaxSyms
                   /\ \E syms \in [1..SumTo(lens, k) -> SymbolPool] :
                         Fresh(NewElfInfo(o[1], ClassifyFile(vc, hs, lens, syms), o[2]))
    /\ http = HttpIdle
    /\ batch = BatchIdle
    /\ measure = NoMeasure

FirstClassification == ret.op = "__init__" /\ DisplaySymbolTables

Next == FirstClassification

Spec == Init /\ [][Next]_vars

-----------------------------------------------------------------------------
(* Properties of one classification run (specification Spec) *)

\* data[k] for a key holding a set, {} when the key is absent
Field(k) == IF k \in DOMAIN data THEN data[k] ELSE {}

Classified == ret.op = "display_symbol_tables" /\ ret.exc = NoExc

ScannedSymbols(file) ==
    UNION { Range(file.sections[i].symbols) :
              i \in { j \in 1..Len(file.sections) :
                        /\ file.sections[j].kind = "SymbolTableSection"
                        /\ file.sections[j].sh_entsize # 0 } }

IsFunc(y) == y.st_type = "STT_FUNC"
IsUndefined(y) == y.st_shndx = SHN_UNDEF
IsDefined(y) == y.st_shndx \notin {SHN_UNDEF, SHN_ABS, SHN_COMMON}

\* C1: after one run of display_symbol_tables the imports and exports of the
\* report are disjoint: no FUNC symbol name is in both.
C1_ImportsExportsDisjoint ==
    Classified => Field("imports") \cap Field("exports") = {}

\* C2: after one run, every name of jexports is also in exports of the same
\* report and starts with Java_, and a defined FUNC symbol whose name starts
\* with Java_ is in exports and in jexports, and (unless an undefined FUNC
\* symbol bears the same name) not in imports.
C2_JniExportsWithinExports ==
    Classified =>
        /\ \A n \in Field("jexports") : n \in Field("exports") /\ StartsWith(n, JNI_PREFIX)
        /\ \A y \in ScannedSymbols(elffile) :
              IsFunc(y) /\ IsDefined(y) /\ StartsWith(y.name, JNI_PREFIX) =>
                  /\ y.name \in Field("exports")
                  /\ y.name \in Field("jexports")
                  /\ (y.name \in Field("imports") =>
                         \E z \in ScannedSymbols(elffile) :
                             IsFunc(z) /\ IsUndefined(z) /\ z.name = y.name)

ZeroTables(file) ==
    { j \in 1..Len(file.sections) :
        /\ file.sections[j].kind = "SymbolTableSection"
        /\ file.sections[j].sh_entsize = 0 }

WithoutZeroTables(file) ==
    [file EXCEPT !.sections =
        SelectSeq(@, LAMBDA x : ~(x.kind = "SymbolTableSection" /\ x.sh_entsize = 0))]

\* the lines the last call printed
Printed == SubSeq(emitted, ret.before + 1, Len(emitted))

ZeroDiagnostics ==
    Cardinality({ i \in 1..Len(Printed) : Printed[i].msg = "sh_entsize of zero" })

\* the same run on the same file without its zero-entsize tables
RunWithoutZeroTables ==
    display_symbol_tables(NewElfInfo(cls, WithoutZeroTables(elffile), verbose))

-----------------------------------------------------------------------------
(* Specification SpecReport: the report methods on one object *)

\* elf.get_infos(), elf.print_infos(), elf.collect_sharedlib(), ...: a call
\* of a method the object's class defines
CallMethod(method) ==
    /\ ret.ncalls < MaxCalls
    /\ method \in Methods(cls)
    /\ Returned(Call(Self, method), method, 0, NoResult)

GetInfos ==
    /\ cls = SE
    /\ CallMethod("get_infos")

PrintInfos ==
    /\ cls = PKG
    /\ CallMethod("print_infos")

CollectSharedlib ==
    /\ cls = SE
    /\ CallMethod("collect_sharedlib")

DisplayDynamicTags ==
    /\ cls = PKG
    /\ CallMethod("display_dynamic_tags")

CollectSectionsSegments ==
    /\ cls = SE
    /\ CallMethod("collect_sections_segments")

InitReport ==
    /\ \E o \in Objects, f \in ReportFiles : Fresh(NewElfInfo(o[1], f, o[2]))
    /\ http = HttpIdle
    /\ batch = BatchIdle
    /\ measure = NoMeasure

NextReport ==
    \/ GetInfos
    \/ PrintInfos
    \/ CollectSharedlib
    \/ DisplayDynamicTags
    \/ CollectSectionsSegments
    \/ DisplaySymbolTables

SpecReport == InitReport /\ [][NextReport]_vars

\* the object went through the analysis of its class: get_infos, or
\* display_symbol_tables and print_infos as the package's main block calls them
Analysed ==
    /\ ret.exc = NoExc
    /\ \/ ret.op = "get_infos"
       \/ ret.op = "print_infos" /\ "imports" \in DOMAIN data

DynamicSections(file) ==
    { j \in 1..Len(file.sections) : file.sections[j].kind = "DynamicSection" }

\* the deduplicated DT_NEEDED entries of the file's Dynamic Section
NeededNames(file) ==
    UNION { { file.sections[j].tags[t].needed :
                t \in { u \in 1..Len(file.sections[j].tags) :
                          file.sections[j].tags[u].d_tag = "DT_NEEDED" } } :
            j \in DynamicSections(file) }

\* C7: after the analysis the report's shlib is exactly the deduplicated set
\* of DT_NEEDED entries of the Dynamic Section, and a container without a
\* Dynamic Section has shlib present and empty.
C7_ShlibIsNeededSet ==
    Analysed => "shlib" \in DOMAIN data /\ data["shlib"] = NeededNames(elffile)

ReportSchema == {"arch", "imports", "exports", "jexports", "shlib", "sections", "segments"}

\* C8: after the analysis the report holds every field of the exposed schema.
C8_ReportHasEveryField ==
    Analysed => ReportSchema \subseteq DOMAIN data

-----------------------------------------------------------------------------
(* Specification SpecVersion: version resolution on one object *)

\* elf._symbol_version(nsym)
SymbolVersion(nsym) ==
    /\ ret.ncalls < MaxCalls
    /\ Returned(symbol_version(Self, nsym), "_symbol_version", nsym,
                symbol_version(Self, nsym))

InitVersion ==
    /\ \E o \in Objects, f \in VersionFiles : Fresh(NewElfInfo(o[1], f, o[2]))
    /\ http = HttpIdle
    /\ batch = BatchIdle
    /\ measure = NoMeasure

NextVersion ==
    \/ \E nsym \in 0..MaxVerSyms : SymbolVersion(nsym)
    \/ DisplaySymbolTables

SpecVersion == InitVersion /\ [][NextVersion]_vars

\* the raw VerSym entry the last _symbol_version call read, NoneIdx when the
\* file has no VerSym section or the symbol index is out of its range
RawIndexRead ==
    IF /\ ret.op = "_symbol_version"
       /\ versioninfo.versym # NoSection
       /\ ret.arg < Len(elffile.sections[versioninfo.versym].ndx)
    THEN elffile.sections[versioninfo.versym].ndx[ret.arg + 1]
    ELSE NoneIdx

HiddenBitSet(raw) == raw >= HIDDEN_BIT /\ raw < 2 * HIDDEN_BIT

\* C10: under the GNU scheme, _symbol_version on a symbol whose raw VerSym
\* index has bit 15 set returns a descriptor with hidden = true and with the
\* numeric index equal to the raw index with bit 15 cleared.
C10_HiddenBitStripped ==
    /\ ret.op = "_symbol_version"
    /\ versioninfo.type = "GNU"
    /\ RawIndexRead # NoneIdx
    /\ HiddenBitSet(RawIndexRead)
    => /\ ~ret.none
       /\ ret.value.hidden
       /\ ret.value.index = RawIndexRead - HIDDEN_BIT

\* the index the last _symbol_version call looked up: the raw entry, without
\* the hidden bit under the GNU scheme
EffectiveIndex ==
    IF versioninfo.type = "GNU" /\ HiddenBitSet(RawIndexRead)
    THEN RawIndexRead - HIDDEN_BIT
    ELSE RawIndexRead

\* the looked-up index is a version index (not local or global) that no VerDef
\* entry and no VerNeed auxiliary entry bears
MatchesNoVersion ==
    /\ ret.op = "_symbol_version"
    /\ RawIndexRead \notin {NoneIdx, 0, 1}
    /\ \/ versioninfo.verdef = NoSection
       \/ EffectiveIndex > Len(elffile.sections[versioninfo.verdef].versions)
    /\ \/ versioninfo.verneed = NoSection
       \/ \A i \in 1..Len(elffile.sections[versioninfo.verneed].needs) :
             elffile.sections[versioninfo.verneed].needs[i].other # EffectiveIndex

\* C11: _symbol_version on a symbol whose effective version index matches no
\* VerDef entry and no VerNeed auxiliary entry (the VerNeed list may be absent)
\* raises nothing and returns a descriptor whose name is absent.
C11_UnmatchedIndexAbsentName ==
    MatchesNoVersion =>
        /\ ret.exc = NoExc
        /\ ~ret.none
        /\ ret.value.name = PyNone

\* the scheme tag of a container: GNU if a Dynamic Section carries DT_VERSYM,
\* else Solaris if a VerDef or VerNeed section exists, else none
SchemeTag(file) ==
    IF \E j \in DynamicSections(file) :
          \E t \in 1..Len(file.sections[j].tags) : file.sections[j].tags[t].d_tag = "DT_VERSYM"
    THEN "GNU"
    ELSE IF \E j \in 1..Len(file.sections) :
               file.sections[j].kind \in {"GNUVerDefSection", "GNUVerNeedSection"}
    THEN "Solaris"
    ELSE NoneStr

\* the bundle is absent and no scan has run, or one scan has run and the
\* bundle bears the container's scheme tag
ScannedAtMostOnce ==
    /\ nscans <= 1
    /\ versioninfo.init <=> nscans = 1
    /\ ~versioninfo.init => versioninfo = NoVersionInfo
    /\ versioninfo.init => versioninfo.type = SchemeTag(elffile)

\* a step leaves a bundle that exists as it is, and scans nothing
CacheKept ==
    versioninfo.init => versioninfo' = versioninfo /\ nscans' = nscans

\* C13: over any sequence of display_symbol_tables and _symbol_version calls on
\* one object, _init_versioninfo computes the scheme tag at most once: after
\* the first call the cached bundle is never recomputed or changed, and the
\* tag is GNU if the Dynamic Section carries DT_VERSYM, else Solaris if a
\* VerDef or VerNeed section exists, else none.
C13_SchemeComputedOnce == []ScannedAtMostOnce /\ [][CacheKept]_vars

\* a second call on an object whose first call computed the Solaris tag
C13_Witness ==
    /\ ret.ncalls = 2
    /\ nscans = 1
    /\ versioninfo.type = "Solaris"

-----------------------------------------------------------------------------
(* The upload front-end, main.py *)

\* from exentropy import ElfInfo: the class of the package's __init__.py
MainElfInfo == PKG

\* the characters werkzeug's secure_filename keeps
SafeChars == {"a", "b", ".", "_", "-"}

RECURSIVE StripChars(_, _)
StripChars(s, cs) ==
    IF s # <<>> /\ Head(s) \in cs THEN StripChars(Tail(s), cs)
    ELSE IF s # <<>> /\ s[Len(s)] \in cs THEN StripChars(SubSeq(s, 1, Len(s) - 1), cs)
    ELSE s

\* werkzeug.utils.secure_filename: unsafe characters dropped, then leading and
\* trailing dots and underscores stripped; the result may be empty
secure_filename(name) ==
    StripChars(SelectSeq(name, LAMBDA ch : ch \in SafeChars), {".", "_"})

\* a filename test that takes only the empty name for blank
BlankOnlyWhenEmpty(name) == name = <<>>

\* not elf.filename.strip()
BlankFilename(name) == StripChars(name, {" "}) = <<>>

\* the two checks before any work: the exception they raise, if any
Validation(req) ==
    IF ~req.hasFile THEN "BadRequest"
    ELSE IF BlankFilename(req.filename) THEN "BadRequest"
    ELSE NoExc

\* the try block: elf.save, open, ElfInfo(tmp_file), get_infos(), get_data(),
\* make_response(..., 200).  Its outcome is the exception that left it (NoExc
\* when it returned) and the report handed to jsonify.
TryBlock(req) ==
    IF secure_filename(req.filename) = <<>>
    THEN [exc |-> "IOError", report |-> EmptyDict]          \* tmp_path is the directory
    ELSE IF ~req.content.elf
    THEN [exc |-> "ELFError", report |-> EmptyDict]         \* ELFFile(file)
    ELSE IF Call(NewElfInfo(MainElfInfo, req.content.file, FALSE), "get_infos").exc # NoExc
    THEN [exc |-> Call(NewElfInfo(MainElfInfo, req.content.file, FALSE), "get_infos").exc,
          report |-> EmptyDict]
    ELSE IF "get_data" \notin Methods(MainElfInfo)
    THEN [exc |-> "AttributeError", report |-> EmptyDict]
    ELSE [exc |-> NoExc,
          report |-> Call(NewElfInfo(MainElfInfo, req.content.file, FALSE),
                          "get_infos").self.data]

\* a removal that leaves the directory in place
rmtree_skipped(dirs, d) == dirs

\* shutil.rmtree(tmp_dir)
rmtree(dirs, d) == dirs \ {d}

Error400 == Put(EmptyDict, "error", "Error 400 - Bad Request")
Error500 == Put(EmptyDict, "error", "Error 500 - Internal Server Error")

\* what Flask sends for the way the view function ended: its return value, or
\* the errorhandler registered for the HTTPException raised
ResponseFor(pending, report) ==
    IF pending = "BadRequest" THEN [status |-> 400, body |-> Error400]
    ELSE IF pending = "InternalServerError" THEN [status |-> 500, body |-> Error500]
    ELSE [status |-> 200, body |-> report]

Filenames == { <<>>, <<" ">>, <<"a", ".", "b">>, <<".", ".">> }

Requests ==
    { NoRequest } \cup
    { [hasFile |-> TRUE, filename |-> n, content |-> c] : n \in Filenames, c \in Contents }

\* a POST arrives
Receive(req) ==
    /\ http.pc = "idle"
    /\ http.served < MaxRequests
    /\ http' = [http EXCEPT !.pc = "validate", !.req = req, !.tmp_dir = 0,
                            !.pending = NoExc, !.raised = NoExc, !.analysed = FALSE,
                            !.status = 0, !.body = EmptyDict]
    /\ UNCHANGED engineVars
    /\ UNCHANGED <<batch, measure>>

\* submit_elf up to tmp_dir = tempfile.mkdtemp()
Validate ==
    /\ http.pc = "validate"
    /\ http' = IF Validation(http.req) # NoExc
               THEN [http EXCEPT !.pc = "dispatch", !.pending = Validation(http.req)]
               ELSE [http EXCEPT !.pc = "try", !.made = @ + 1, !.tmp_dir = http.made + 1,
                                 !.dirs = @ \cup {http.made + 1}]
    /\ UNCHANGED engineVars
    /\ UNCHANGED <<batch, measure>>

\* the try block and its except clause, which turns any Exception into
\* InternalServerError
TryExcept ==
    /\ http.pc = "try"
    /\ http' = [http EXCEPT !.pc = "finally", !.analysed = TRUE,
                            !.raised = TryBlock(http.req).exc,
                            !.pending = IF TryBlock(http.req).exc # NoExc
                                        THEN "InternalServerError" ELSE "return",
                            !.body = TryBlock(http.req).report]
    /\ UNCHANGED engineVars
    /\ UNCHANGED <<batch, measure>>

\* the finally clause
Finally ==
    /\ http.pc = "finally"
    /\ http' = [http EXCEPT !.pc = "dispatch", !.dirs = rmtree(@, http.tmp_dir)]
    /\ UNCHANGED engineVars
    /\ UNCHANGED <<batch, measure>>

\* the request ends: Flask sends the response
Dispatch ==
    /\ http.pc = "dispatch"
    /\ http' = [http EXCEPT !.pc = "idle", !.served = @ + 1,
                            !.status = ResponseFor(http.pending, http.body).status,
                            !.body = ResponseFor(http.pending, http.body).body]
    /\ UNCHANGED engineVars
    /\ UNCHANGED <<batch, measure>>

EngineOff ==
    /\ cls = "" /\ verbose = FALSE /\ elffile = ELFFile(0, <<>>, <<>>)
    /\ versioninfo = NoVersionInfo /\ data = EmptyDict /\ emitted = <<>> /\ nscans = 0
    /\ ret = [op |-> "", arg |-> 0, exc |-> NoExc, none |-> TRUE,
              value |-> BlankVersion, local |-> BlankVersion, before |-> 0, ncalls |-> 0]

InitHttp ==
    /\ EngineOff
    /\ http = [HttpIdle EXCEPT !.pc = "idle"]
    /\ batch = BatchIdle
    /\ measure = NoMeasure

NextHttp ==
    \/ \E req \in Requests : Receive(req)
    \/ Validate
    \/ TryExcept
    \/ Finally
    \/ Dispatch

SpecHttp == InitHttp /\ [][NextHttp]_vars

\* the request has ended (the view function was left and the response sent)
Responded == http.pc = "idle" /\ http.served > 0

\* C3: on every exit path of submit_elf the temporary directory the request
\* created has been removed by the time the request ends.
C3_TempDirRemoved ==
    http.pc \in {"dispatch", "idle"} => http.dirs = {}

\* a request that created a temporary directory, failed in the analysis and
\* ended with the directory gone
C3_Witness ==
    /\ Responded /\ http.tmp_dir # 0 /\ http.raised # NoExc
    /\ http.tmp_dir \notin http.dirs

\* C4: an upload with a non-empty file part whose content is a well-formed
\* ELF file ends with status 200 and the report as body.
C4_WellFormedUploadSucceeds ==
    /\ Responded
    /\ http.req.hasFile
    /\ secure_filename(http.req.filename) # <<>>
    /\ http.req.content.elf
    => /\ http.status = 200
       /\ http.raised = NoExc

\* C5: a request without a file field or with a blank filename is answered 400
\* before any analysis step and before any temporary directory is made; a
\* failure while saving or analysing is answered 500 with the generic body;
\* a failing path produces no other status.
C5_ErrorStatuses ==
    Responded =>
        /\ (~http.req.hasFile \/ StripChars(http.req.filename, {" "}) = <<>>) =>
              /\ http.status = 400 /\ http.body = Error400
              /\ ~http.analysed /\ http.tmp_dir = 0
        /\ http.raised # NoExc => http.status = 500 /\ http.body = Error500
        /\ http.status \in {200, 400, 500}
        /\ http.status = 200 => http.raised = NoExc /\ http.pending = "return"

\* both failing answers were given: a blank filename answered 400 with no
\* directory made, and (the request before it) an analysis failure answered 500
C5_Witness ==
    /\ Responded /\ http.served = 2
    /\ http.req.hasFile /\ http.req.filename = <<" ">>
    /\ http.status = 400 /\ http.tmp_dir = 0
    /\ http.made = 1

-----------------------------------------------------------------------------
(* The batch scripts: import_extractor.py and the main block of searchexports.py *)

IMPORT_EXTRACTOR == "import_extractor.py"
SEARCHEXPORTS == "searchexports.py"

\* the class each script's ElfInfo name is bound to
ScriptElfInfo(script) == IF script = IMPORT_EXTRACTOR THEN PKG ELSE SE

\* the method each script calls on the object
ScriptMethod(script) ==
    IF script = IMPORT_EXTRACTOR THEN "get_infos" ELSE "display_symbol_tables"

\* the key of elf.data each script reads
ScriptKey(script) == IF script = IMPORT_EXTRACTOR THEN "imports" ELSE "exports"

\* the body of the try statement for one file: the names to add, or the
\* exception the except clause catches
TryFile(script, content) ==
    IF ~content.elf THEN [exc |-> "ELFError", names |-> {}]
    ELSE IF Call(NewElfInfo(ScriptElfInfo(script), content.file, FALSE),
                 ScriptMethod(script)).exc # NoExc
    THEN [exc |-> Call(NewElfInfo(ScriptElfInfo(script), content.file, FALSE),
                       ScriptMethod(script)).exc,
          names |-> {}]
    ELSE IF ScriptKey(script) \notin
              DOMAIN Call(NewElfInfo(ScriptElfInfo(script), content.file, FALSE),
                          ScriptMethod(script)).self.data
    THEN [exc |-> "KeyError", names |-> {}]
    ELSE [exc |-> NoExc,
          names |-> Call(NewElfInfo(ScriptElfInfo(script), content.file, FALSE),
                         ScriptMethod(script)).self.data[ScriptKey(script)]]

\* one iteration of the loop over the walked files
ProcessFile ==
    /\ batch.pc = "walk"
    /\ batch.i <= Len(batch.files)
    /\ batch' = [batch EXCEPT
                    !.i = @ + 1,
                    !.result_set = @ \cup TryFile(batch.script, batch.files[batch.i]).names,
                    !.problems = IF TryFile(batch.script, batch.files[batch.i]).exc # NoExc
                                 THEN @ \cup {batch.i} ELSE @]
    /\ UNCHANGED engineVars
    /\ UNCHANGED <<http, measure>>

\* after the loop: one name per line into the output file
WriteOutput ==
    /\ batch.pc = "walk"
    /\ batch.i > Len(batch.files)
    /\ batch' = [batch EXCEPT !.pc = "done", !.output = batch.result_set]
    /\ UNCHANGED engineVars
    /\ UNCHANGED <<http, measure>>

InitBatch ==
    /\ EngineOff
    /\ http = HttpIdle
    /\ measure = NoMeasure
    /\ \E script \in {IMPORT_EXTRACTOR, SEARCHEXPORTS}, files \in SeqsUpTo(Contents, MaxFiles) :
          batch = [BatchIdle EXCEPT !.pc = "walk", !.script = script, !.files = files]

NextBatch ==
    \/ ProcessFile
    \/ WriteOutput

SpecBatch == InitBatch /\ [][NextBatch]_vars

\* the name set of one well-formed file that the script is about: what the
\* classification of the script's class stores under the script's key
RelevantNames(script, content) ==
    LET d == display_symbol_tables(NewElfInfo(ScriptElfInfo(script), content.file, FALSE)).self.data
    IN  IF ScriptKey(script) \in DOMAIN d THEN d[ScriptKey(script)] ELSE {}

\* C6: a failing file never aborts the loop: every file is processed, the
\* failing files' paths are reported (and only theirs), and the output is
\* exactly the union of the relevant name sets of the well-formed files.
C6_BatchOutputIsUnion ==
    batch.pc = "done" =>
        /\ batch.i = Len(batch.files) + 1
        /\ batch.problems = { k \in 1..Len(batch.files) : ~batch.files[k].elf }
        /\ batch.output = UNION { RelevantNames(batch.script, batch.files[k]) :
                                    k \in { j \in 1..Len(batch.files) : batch.files[j].elf } }

-----------------------------------------------------------------------------
(* Specification SpecEntropy: compute_entropy on one byte buffer *)

\* buffers hold at most MaxBytes bytes
MaxBytes == 4

\* byte values of the buffers: struct.unpack('h', byte + "\x00") maps a byte to
\* 0..255
BytePool == {0, 1, 128, 255}

Buffers == SeqsUpTo(BytePool, MaxBytes)

\* the division float(map_of_bytes[key]) / float(len(text)) raises for a zero
\* length; it sits in the loop over the keys of map_of_bytes
EntropyRaises(text) ==
    IF DOMAIN Histogram(text) # {} /\ Len(text) = 0 THEN "ZeroDivisionError" ELSE NoExc

\* ElfInfo.compute_entropy(text)
ComputeEntropy ==
    /\ ~measure.called
    /\ measure' = [measure EXCEPT
                      !.called = TRUE,
                      !.exc = EntropyRaises(measure.text),
                      !.entropy = IF EntropyRaises(measure.text) = NoExc
                                  THEN compute_entropy(measure.text) ELSE 0]
    /\ UNCHANGED engineVars
    /\ UNCHANGED <<http, batch>>

InitEntropy ==
    /\ EngineOff
    /\ http = HttpIdle
    /\ batch = BatchIdle
    /\ \E text \in Buffers : measure = [NoMeasure EXCEPT !.text = text]

NextEntropy == ComputeEntropy

SpecEntropy == InitEntropy /\ [][NextEntropy]_vars

\* the byte values that occur in a buffer
ByteValues(text) == Range(text)

\* 8 bits, in thousandths of a bit
EIGHT_BITS == 8000

\* C12: compute_entropy returns a value in [0, 8] for every buffer (at most
\* log2 of the number of byte values that occur, of which there are at most
\* 256); for the empty buffer it returns 0 without a division error, and for
\* a buffer of one repeated byte value it returns 0.
C12_EntropyInRange ==
    measure.called =>
        /\ measure.exc = NoExc
        /\ measure.entropy >= 0
        /\ measure.entropy <= EIGHT_BITS
        /\ ByteValues(measure.text) \subseteq 0..255
        /\ ByteValues(measure.text) # {} =>
              measure.entropy <= Log2Milli[Cardinality(ByteValues(measure.text))]
        /\ Cardinality(ByteValues(measure.text)) <= 1 => measure.entropy = 0

\* a buffer of two byte values, each in half of the positions, measured at one
\* bit
C12_Witness ==
    /\ measure.called
    /\ measure.text = <<0, 255, 255, 0>>
    /\ measure.entropy = 1000

\* the empty buffer, measured at 0
C12_WitnessEmpty == measure.called /\ measure.text = <<>> /\ measure.entropy = 0

\* a buffer of one repeated byte value, measured at 0
C12_WitnessRepeated == measure.called /\ measure.text = <<128, 128, 128>> /\ measure.entropy = 0

====
